---- MODULE Spec2Model ----
(***************************************************************************)
(* raven_bot (src/main.py): per-guild matchmaking lobbies over a chat SDK. *)
(*                                                                         *)
(* State: the persisted guild_config table (db), the process-wide cache    *)
(* GuildConfig.registry, the process-wide LobbyState.registry, the         *)
(* join handlers suspended at an awaited reply (tasks), and what the last  *)
(* step sent or raised (result).                                           *)
(*                                                                         *)
(* Handlers are coroutines: the checks and the handler body up to its      *)
(* first `await ctx.send(...)` run without suspension, so they form one    *)
(* action; the code of join after an awaited reply is a further action.    *)
(* host, leave, query and the configure commands do nothing after their    *)
(* one reply, so each of them is a single action.  At most MaxInFlight     *)
(* join handlers are suspended at a time, one per member (MaxRacing under  *)
(* SpecRacing, where the handlers of different joins interleave).          *)
(*                                                                         *)
(* Time: every timestamp t of the program is kept as t - datetime.now(),   *)
(* in hours.  clean_up only compares timestamps with now, so the passing   *)
(* of an hour (Tick) lowers every stored timestamp by one, and a timestamp *)
(* that is already on the far side of its comparison stays there.          *)
(***************************************************************************)
EXTENDS Integers, Sequences, FiniteSets, TLC

\* ---------------------------------------------------------------- bounds
NumMembers == 2
MaxSizeArg == 2
MaxInFlight == 1
MaxRacing == 2

\* ------------------------------------------------------ program constants
JoinTTL == 2
LobbyTTL == 24
DefaultQueueSize == 8
dev_guild_id == 1

\* ------------------------------------------------------------ input sets
Guilds == {1, 2}
Channels == {1, 2}
Roles == {1}
Members == 1..NumMembers
SizeArgs == (-1)..MaxSizeArg

\* Optional[T]: None, or a one-element tuple holding the value.
None == <<>>
Some(v) == <<v>>
Opt(S) == {None} \cup {Some(v) : v \in S}

\* Python dict operations on functions.
EmptyDict == <<>>
DictSet(d, k, v) == [x \in (DOMAIN d) \cup {k} |-> IF x = k THEN v ELSE d[x]]
DictPop(d, k) == [x \in (DOMAIN d) \ {k} |-> d[x]]

Max(a, b) == IF a > b THEN a ELSE b

VARIABLES
    db,               \* table guild_config: guild_id -> row
    config_registry,  \* GuildConfig.registry: guild_id -> cached row
    lobby_registry,   \* LobbyState.registry: guild_id -> LobbyState
    tasks,            \* member -> the member's suspended join handler
    result            \* what the last step did: status, reply, clean-up

vars == <<db, config_registry, lobby_registry, tasks, result>>

\* ------------------------------------------------------- guild metadata
\* A row of guild_config without its key.
GuildConfig(role, channel, size) ==
    [host_role_id |-> role, queue_channel |-> channel,
     default_queue_size |-> size]

NewGuildConfig == GuildConfig(None, None, None)

\* The rows the table may hold when the process starts: no channel set,
\* a channel with the default size, with a size, and with a host role.
StartupRows ==
    {NewGuildConfig,
     GuildConfig(None, Some(1), None),
     GuildConfig(None, Some(1), Some(2)),
     GuildConfig(Some(1), Some(1), Some(1))}

prod_server_check(g) == g = dev_guild_id

channel_check_unset_allows(g, ch) ==
    \/ config_registry[g].queue_channel = None
    \/ config_registry[g].queue_channel = Some(ch)
channel_check(g, ch) == config_registry[g].queue_channel = Some(ch)

host_check(g, roles) ==
    LET cfg == config_registry[g]
    IN  cfg.host_role_id = None
        \/ \E r \in roles : Some(r) = cfg.host_role_id

\* ------------------------------------------------------ lobby management
QueueJoin(m, t) == [member_id |-> m, end_time |-> t]

\* default_queue_size or 8
OrDefault(size) ==
    IF size = None \/ size = Some(0) THEN DefaultQueueSize ELSE size[1]

NewLobbyState(g) ==
    [guild_id |-> g,
     queue_size |-> OrDefault(config_registry[g].default_queue_size),
     end_time |-> LobbyTTL,
     queue |-> <<>>]

\* clean_up: what it returns, and the object (self) as it leaves it.
clean_up_inverted(self) ==
    IF 0 < self.end_time
    THEN [returns |-> TRUE, self |-> self]
    ELSE [returns |-> FALSE,
          self |-> [self EXCEPT !.queue =
                       SelectSeq(self.queue, LAMBDA qj : 0 < qj.end_time)]]
clean_up_inclusive(self) ==
    IF 0 > self.end_time
    THEN [returns |-> TRUE, self |-> self]
    ELSE [returns |-> FALSE,
          self |-> [self EXCEPT !.queue =
                       SelectSeq(self.queue, LAMBDA qj : 0 <= qj.end_time)]]
clean_up_resizing(self) ==
    IF 0 > self.end_time
    THEN [returns |-> TRUE, self |-> self]
    ELSE [returns |-> FALSE,
          self |-> [self EXCEPT !.queue_size = DefaultQueueSize,
                                !.queue =
                       SelectSeq(self.queue, LAMBDA qj : 0 < qj.end_time)]]
clean_up(self) ==
    IF 0 > self.end_time
    THEN [returns |-> TRUE, self |-> self]
    ELSE [returns |-> FALSE,
          self |-> [self EXCEPT !.queue =
                       SelectSeq(self.queue, LAMBDA qj : 0 < qj.end_time)]]

\* lobby_exists: what it returns, and the registry as it leaves it.
lobby_exists(g) ==
    IF g \notin DOMAIN lobby_registry
    THEN [returns |-> FALSE, registry |-> lobby_registry]
    ELSE LET cleaned == clean_up(lobby_registry[g]) IN
         IF cleaned.returns
         THEN [returns |-> FALSE, registry |-> DictPop(lobby_registry, g)]
         ELSE [returns |-> TRUE,
               registry |-> [lobby_registry EXCEPT ![g] = cleaned.self]]

lobby_not_exists_unchecked(g) ==
    [returns |-> TRUE, registry |-> lobby_exists(g).registry]
lobby_not_exists(g) ==
    [returns |-> ~lobby_exists(g).returns, registry |-> lobby_exists(g).registry]

\* A suspended join handler holds a reference to its LobbyState in the
\* local lobby_state.  While that object is the registered one the task
\* reads the registry's object (detached = None); once the registry drops
\* the object nothing can change it any more, and the task keeps it as it
\* was at that moment (detached = Some(object)).
Idle == [pc |-> "idle", guild |-> 0, detached |-> None]

Detach(tk, g, reg) ==
    IF g \in DOMAIN lobby_registry /\ g \notin DOMAIN reg
    THEN [m \in Members |->
             IF tk[m].pc # "idle" /\ tk[m].guild = g /\ tk[m].detached = None
             THEN [tk[m] EXCEPT !.detached = Some(lobby_registry[g])]
             ELSE tk[m]]
    ELSE tk

TaskLobby(t) ==
    IF t.detached = None THEN lobby_registry[t.guild] ELSE t.detached[1]

Result(status, reply, data) ==
    [status |-> status, reply |-> reply, data |-> data,
     expired |-> FALSE, dropped |-> 0]

\* The result of a step whose lobby check left the registry as reg:
\* whether the check deleted the lobby, and how many entries it dropped.
Cleaned(g, reg, status, reply, data) ==
    [status |-> status, reply |-> reply, data |-> data,
     expired |-> g \in DOMAIN lobby_registry /\ g \notin DOMAIN reg,
     dropped |-> IF g \in DOMAIN reg
                 THEN Len(lobby_registry[g].queue) - Len(reg[g].queue)
                 ELSE 0]

\* The command is dropped before any check touches a lobby; nothing is sent.
Dropped(status) ==
    /\ result' = Result(status, "", <<>>)
    /\ UNCHANGED <<db, config_registry, lobby_registry, tasks>>

\* The command is dropped by lobby_exists / lobby_not_exists, whose
\* clean-up stays.
DroppedByLobbyCheck(g, reg, status) ==
    /\ result' = Cleaned(g, reg, status, "", <<>>)
    /\ lobby_registry' = reg
    /\ tasks' = Detach(tasks, g, reg)
    /\ UNCHANGED <<db, config_registry>>

\* The checks every lobby command starts with; "" when they all pass.
\* A guild without a cached row makes channel_check raise KeyError.
ConfigChecks_channel_unchecked(g, ch) ==
    IF g \notin DOMAIN config_registry THEN "KeyError" ELSE ""
ConfigChecks(g, ch) ==
    IF g \notin DOMAIN config_registry THEN "KeyError"
    ELSE IF ~channel_check(g, ch) THEN "channel_check"
    ELSE ""

Init ==
    /\ \E rows \in {EmptyDict} \cup
                   {DictSet(EmptyDict, dev_guild_id, r) : r \in StartupRows} :
           /\ db = rows
           /\ config_registry = rows
    /\ lobby_registry = EmptyDict
    /\ tasks = [m \in Members |-> Idle]
    /\ result = Result("start", "", <<>>)

\* host: channel_check, host_check, lobby_not_exists, then the handler.
Host(g, ch, roles) ==
    LET failed == ConfigChecks(g, ch)
        check == lobby_not_exists(g)
    IN  IF failed # "" THEN Dropped(failed)
        ELSE IF ~host_check(g, roles) THEN Dropped("host_check")
        ELSE IF ~check.returns
        THEN DroppedByLobbyCheck(g, check.registry, "lobby_not_exists")
        ELSE
            /\ lobby_registry' = DictSet(check.registry, g, NewLobbyState(g))
            /\ tasks' = Detach(tasks, g, check.registry)
            /\ result' = Cleaned(g, check.registry, "ok", "Lobby created!",
                                 <<>>)
            /\ UNCHANGED <<db, config_registry>>

\* The position of member m in queue q, 0 when m is not queued.
IndexOf_not_found(q, m) == 0
IndexOf(q, m) ==
    IF \E i \in DOMAIN q : q[i].member_id = m
    THEN CHOOSE i \in DOMAIN q :
             /\ q[i].member_id = m
             /\ \A j \in DOMAIN q : q[j].member_id = m => i <= j
    ELSE 0

\* join up to its first awaited reply, with at most limit handlers suspended.
JoinBounded(g, ch, m, limit) ==
    LET failed == ConfigChecks(g, ch)
        check == lobby_exists(g)
        lobby_state == check.registry[g]
        i == IndexOf(lobby_state.queue, m)
    IN  IF failed # "" THEN Dropped(failed)
        ELSE IF ~check.returns
        THEN DroppedByLobbyCheck(g, check.registry, "lobby_exists")
        ELSE IF i # 0 THEN
            /\ lobby_registry' = [check.registry EXCEPT
                                     ![g].queue[i].end_time = JoinTTL]
            /\ result' = Cleaned(g, check.registry, "ok",
                             "You are already part of the queue!", <<>>)
            /\ UNCHANGED <<db, config_registry, tasks>>
        ELSE
            /\ tasks[m].pc = "idle"
            /\ Cardinality({x \in Members : tasks[x].pc # "idle"})
                   < limit
            /\ lobby_registry' = [check.registry EXCEPT ![g].queue =
                   Append(lobby_state.queue, QueueJoin(m, JoinTTL))]
            /\ tasks' = [tasks EXCEPT ![m] =
                   [pc |-> "fullness", guild |-> g, detached |-> None]]
            /\ result' = Cleaned(g, check.registry, "ok",
                             "You have successfully joined the queue!", <<>>)
            /\ UNCHANGED <<db, config_registry>>

Join(g, ch, m) == JoinBounded(g, ch, m, MaxInFlight)

\* join while the handler of another join may be suspended at a reply.
JoinRacing(g, ch, m) == JoinBounded(g, ch, m, MaxRacing)

Mentions(q) == [i \in DOMAIN q |-> q[i].member_id]

\* join after "You have successfully joined the queue!" was delivered.
JoinFullness(m) ==
    /\ tasks[m].pc = "fullness"
    /\ LET lobby_state == TaskLobby(tasks[m]) IN
       IF Len(lobby_state.queue) = lobby_state.queue_size THEN
           /\ tasks' = [tasks EXCEPT ![m].pc = "pop"]
           /\ result' = Result("ok", "Full lobby. Start game!",
                            Mentions(lobby_state.queue))
       ELSE
           /\ tasks' = [tasks EXCEPT ![m] = Idle]
           /\ result' = Result("returned", "", <<>>)
    /\ UNCHANGED <<db, config_registry, lobby_registry>>

\* join after the full-lobby announcement was delivered:
\* LobbyState.registry.pop(ctx.guild.id).
JoinPop(m) ==
    /\ tasks[m].pc = "pop"
    /\ IF tasks[m].guild \in DOMAIN lobby_registry THEN
           /\ lobby_registry' = DictPop(lobby_registry, tasks[m].guild)
           /\ result' = Result("popped", "", <<>>)
       ELSE
           /\ UNCHANGED lobby_registry
           /\ result' = Result("KeyError", "", <<>>)
    /\ tasks' = [Detach(tasks, tasks[m].guild, lobby_registry')
                    EXCEPT ![m] = Idle]
    /\ UNCHANGED <<db, config_registry>>

\* [qj for qj in lobby_state.queue if qj.member_id != ctx.author.id]
Without_everyone(q, m) == <<>>
Without(q, m) == SelectSeq(q, LAMBDA qj : qj.member_id # m)

Leave(g, ch, m) ==
    LET failed == ConfigChecks(g, ch)
        check == lobby_exists(g)
        lobby_state == check.registry[g]
    IN  IF failed # "" THEN Dropped(failed)
        ELSE IF ~check.returns
        THEN DroppedByLobbyCheck(g, check.registry, "lobby_exists")
        ELSE
            /\ lobby_registry' = [check.registry EXCEPT ![g].queue =
                   Without(lobby_state.queue, m)]
            /\ result' = Cleaned(g, check.registry, "ok",
                             "You are no longer part of the queue!", <<>>)
            /\ UNCHANGED <<db, config_registry, tasks>>

Query(g, ch) ==
    LET failed == ConfigChecks(g, ch)
        check == lobby_exists(g)
        lobby_state == check.registry[g]
    IN  IF failed # "" THEN Dropped(failed)
        ELSE IF ~check.returns
        THEN DroppedByLobbyCheck(g, check.registry, "lobby_exists")
        ELSE
            /\ lobby_registry' = check.registry
            /\ result' = Cleaned(g, check.registry, "ok",
                             "players in the lobby.",
                             <<Len(lobby_state.queue)>>)
            /\ UNCHANGED <<db, config_registry, tasks>>

\* ------------------------------------------------- configure commands
\* session.merge(cached): the row loaded for the key takes the value of
\* every loaded attribute of the detached cached object.
Merge(row, cached) ==
    [host_role_id |-> cached.host_role_id,
     queue_channel |-> cached.queue_channel,
     default_queue_size |-> cached.default_queue_size]

\* guild_config: the object the with-block yields.
guild_config(g) ==
    IF g \notin DOMAIN config_registry
    THEN NewGuildConfig
    ELSE Merge(db[g], config_registry[g])

\* session.commit(): INSERT of an added object, UPDATE of a merged one.
\* guild_id is the primary key, so a second INSERT for it fails.
Commit(g, obj) ==
    IF g \notin DOMAIN config_registry /\ g \in DOMAIN db THEN
        /\ result' = Result("IntegrityError", "", <<>>)
        /\ UNCHANGED db
    ELSE
        /\ db' = DictSet(db, g, obj)
        /\ result' = Result("ok", "Settings updated.", <<>>)

\* queue_size <= 0
InvalidQueueSize_negative(queue_size) == queue_size < 0
InvalidQueueSize(queue_size) == queue_size <= 0

\* The commands take no check but the bot-wide one: manage_guild, the
\* invoking user's guild-management permission, is not looked at.
ConfigureDefaultQueueSize(g, manage_guild, queue_size) ==
    /\ IF queue_size = None THEN
           /\ result' = Result("TypeError", "", <<>>)
           /\ UNCHANGED db
       ELSE IF InvalidQueueSize(queue_size[1]) THEN
           /\ result' = Result("CommandError",
                            "Default queue size must be greater than 0.", <<>>)
           /\ UNCHANGED db
       ELSE
           Commit(g, [guild_config(g) EXCEPT !.default_queue_size = queue_size])
    /\ UNCHANGED <<config_registry, lobby_registry, tasks>>

ConfigureQueueChannel(g, manage_guild, channel, send_messages, read_messages) ==
    /\ IF ~send_messages /\ read_messages THEN
           /\ result' = Result("CommandError",
                            "Bot does not have permissions for: {channel.mention}",
                            <<>>)
           /\ UNCHANGED db
       ELSE
           Commit(g, [guild_config(g) EXCEPT !.queue_channel = Some(channel)])
    /\ UNCHANGED <<config_registry, lobby_registry, tasks>>

ConfigureHostRole(g, manage_guild, role) ==
    /\ Commit(g, [guild_config(g) EXCEPT !.host_role_id = role])
    /\ UNCHANGED <<config_registry, lobby_registry, tasks>>

\* An hour passes.  Replies are delivered within the hour.
TickLobby(l) ==
    [l EXCEPT !.end_time = Max(l.end_time - 1, -1),
              !.queue = [i \in DOMAIN l.queue |->
                            [l.queue[i] EXCEPT
                                !.end_time = Max(l.queue[i].end_time - 1, 0)]]]

Tick ==
    /\ \A m \in Members : tasks[m].pc = "idle"
    /\ lobby_registry' = [g \in DOMAIN lobby_registry |->
                             TickLobby(lobby_registry[g])]
    /\ lobby_registry' # lobby_registry
    /\ result' = Result("tick", "", <<>>)
    /\ UNCHANGED <<db, config_registry, tasks>>

\* A command of any kind that the bot-wide check rejects.
GlobalCheckFails(g) ==
    /\ ~prod_server_check(g)
    /\ Dropped("prod_server_check")

\* The command handlers run for the guilds that pass the bot-wide check.
Served == {g \in Guilds : prod_server_check(g)}

Next ==
    \/ \E g \in Guilds : GlobalCheckFails(g)
    \/ \E g \in Served, ch \in Channels, roles \in SUBSET Roles :
           Host(g, ch, roles)
    \/ \E g \in Served, ch \in Channels, m \in Members : Join(g, ch, m)
    \/ \E m \in Members : JoinFullness(m)
    \/ \E m \in Members : JoinPop(m)
    \/ \E g \in Served, ch \in Channels, m \in Members : Leave(g, ch, m)
    \/ \E g \in Served, ch \in Channels : Query(g, ch)
    \/ \E g \in Served, manage_guild \in BOOLEAN, n \in Opt(SizeArgs) :
           ConfigureDefaultQueueSize(g, manage_guild, n)
    \/ \E g \in Served, manage_guild \in BOOLEAN, c \in Channels,
          send \in BOOLEAN, read \in BOOLEAN :
           ConfigureQueueChannel(g, manage_guild, c, send, read)
    \/ \E g \in Served, manage_guild \in BOOLEAN, r \in Opt(Roles) :
           ConfigureHostRole(g, manage_guild, r)
    \/ Tick

Spec == Init /\ [][Next]_vars

\* The lobby commands with the handlers of two joins interleaving at their
\* awaited replies; the configuration is the one loaded at startup.
NextRacing ==
    \/ \E g \in Served, ch \in Channels, roles \in SUBSET Roles :
           Host(g, ch, roles)
    \/ \E g \in Served, ch \in Channels, m \in Members : JoinRacing(g, ch, m)
    \/ \E m \in Members : JoinFullness(m)
    \/ \E m \in Members : JoinPop(m)
    \/ \E g \in Served, ch \in Channels, m \in Members : Leave(g, ch, m)
    \/ \E g \in Served, ch \in Channels : Query(g, ch)
    \/ Tick

SpecRacing == Init /\ [][NextRacing]_vars
\* ===================================================================
\* Properties
\* ===================================================================
\* The command is issued in the guild's cached queue channel.
Accepts(g, ch) ==
    /\ g \in DOMAIN config_registry
    /\ config_registry[g].queue_channel = Some(ch)
\* The author holds the cached host role, or no host role is cached.
MayHost(g, roles) ==
    \/ config_registry[g].host_role_id = None
    \/ \E r \in roles : config_registry[g].host_role_id = Some(r)
\* The guild's lobby is registered and its 24 hours have not passed.
Active(g) == g \in DOMAIN lobby_registry /\ lobby_registry[g].end_time >= 0
Unexpired(qj) == qj.end_time > 0
Queued(q, m) == \E i \in DOMAIN q : q[i].member_id = m
NoDuplicates(q) ==
    \A i, j \in DOMAIN q : q[i].member_id = q[j].member_id => i = j

\* C1 (as stated): a host command issued while the guild has an active
\* lobby creates no lobby and leaves the lobby, its queue included, as it was.
C1_HostLeavesActiveLobbyUntouched ==
    [][\A g \in Served, ch \in Channels, roles \in SUBSET Roles :
          (Active(g) /\ Host(g, ch, roles)) =>
              /\ g \in DOMAIN lobby_registry'
              /\ lobby_registry'[g] = lobby_registry[g]
              /\ result'.reply # "Lobby created!"]_vars

\* C1 (amended): a host command issued while the guild has an active lobby
\* creates no lobby and leaves the lobby's queue_size and end_time as they
\* were; the queue is as it was, or, when the command reaches the
\* lobby_not_exists check, as it was less the entries that have expired.
C1_HostKeepsActiveLobby ==
    [][\A g \in Served, ch \in Channels, roles \in SUBSET Roles :
          (Active(g) /\ Host(g, ch, roles)) =>
              /\ g \in DOMAIN lobby_registry'
              /\ lobby_registry'[g].queue_size = lobby_registry[g].queue_size
              /\ lobby_registry'[g].end_time = lobby_registry[g].end_time
              /\ \/ lobby_registry'[g].queue = lobby_registry[g].queue
                 \/ /\ Accepts(g, ch) /\ MayHost(g, roles)
                    /\ lobby_registry'[g].queue =
                           SelectSeq(lobby_registry[g].queue, Unexpired)
              /\ result'.reply # "Lobby created!"]_vars

\* C1 witness: a host was turned down by lobby_not_exists, the lobby is
\* still registered and the check's clean-up dropped an expired entry.
C1_Witness ==
    /\ result.status = "lobby_not_exists"
    /\ result.dropped > 0
    /\ Active(dev_guild_id)

\* C2: a configure command of a user without the guild-management
\* permission changes neither the table nor the cache.
C2_ConfigureNeedsManageGuild ==
    [][\A g \in Served :
          (\/ \E n \in Opt(SizeArgs) : ConfigureDefaultQueueSize(g, FALSE, n)
           \/ \E c \in Channels, send \in BOOLEAN, read \in BOOLEAN :
                  ConfigureQueueChannel(g, FALSE, c, send, read)
           \/ \E r \in Opt(Roles) : ConfigureHostRole(g, FALSE, r))
          => UNCHANGED <<db, config_registry>>]_vars

\* C3: the cache and the table hold the same row for every guild.
C3_CacheAgreesWithStore ==
    /\ DOMAIN config_registry = DOMAIN db
    /\ \A g \in DOMAIN db : config_registry[g] = db[g]

\* C4: the step in which a join appends the member that fills the queue
\* leaves no lobby registered for the guild.
C4_FullLobbyRemovedAtOnce ==
    [][\A g \in Served, ch \in Channels, m \in Members :
          (/\ Active(g)
           /\ Len(SelectSeq(lobby_registry[g].queue, Unexpired)) + 1
                  = lobby_registry[g].queue_size
           /\ result'.reply = "You have successfully joined the queue!"
           /\ Join(g, ch, m))
          => g \notin DOMAIN lobby_registry']_vars

\* C5 (as stated): no member is queued twice, and a join by a member who
\* has an entry in the queue refreshes the entry to now+2h, leaves the
\* length of the queue as it was, replies "already part of the queue" and
\* starts no pop.
C5_RejoinKeepsQueueLength ==
    [][/\ \A g \in DOMAIN lobby_registry' :
              NoDuplicates(lobby_registry'[g].queue)
       /\ \A g \in Served, ch \in Channels, m \in Members :
              (/\ Accepts(g, ch) /\ Active(g)
               /\ Queued(lobby_registry[g].queue, m)
               /\ Join(g, ch, m)) =>
                  /\ g \in DOMAIN lobby_registry'
                  /\ Len(lobby_registry'[g].queue)
                         = Len(lobby_registry[g].queue)
                  /\ Queued(lobby_registry'[g].queue, m)
                  /\ \A i \in DOMAIN lobby_registry'[g].queue :
                         lobby_registry'[g].queue[i].member_id = m =>
                             lobby_registry'[g].queue[i].end_time = JoinTTL
                  /\ result'.reply = "You are already part of the queue!"
                  /\ tasks' = tasks]_vars

\* C5 (amended): no member is queued twice, and a join by a member who has
\* an unexpired entry in the queue refreshes that entry to now+2h and leaves
\* the other unexpired entries and their order as they were (the expired
\* ones are dropped), replies "already part of the queue" and starts no pop.
C5_RejoinRefreshesEntry ==
    [][/\ \A g \in DOMAIN lobby_registry' :
              NoDuplicates(lobby_registry'[g].queue)
       /\ \A g \in Served, ch \in Channels, m \in Members :
              LET live == SelectSeq(lobby_registry[g].queue, Unexpired) IN
              (/\ Accepts(g, ch) /\ Active(g) /\ Queued(live, m)
               /\ Join(g, ch, m)) =>
                  /\ g \in DOMAIN lobby_registry'
                  /\ Len(lobby_registry'[g].queue) = Len(live)
                  /\ \A i \in DOMAIN live :
                         lobby_registry'[g].queue[i] =
                             IF live[i].member_id = m
                             THEN QueueJoin(m, JoinTTL)
                             ELSE live[i]
                  /\ result'.reply = "You are already part of the queue!"
                  /\ tasks' = tasks]_vars

\* C5 witness: the member queued first holds a later expiry than the member
\* queued after it, so the first entry was refreshed by a re-join.
C5_Witness ==
    /\ result.reply = "You are already part of the queue!"
    /\ Active(dev_guild_id)
    /\ LET q == lobby_registry[dev_guild_id].queue IN
       /\ Len(q) = 2
       /\ q[1].end_time = JoinTTL
       /\ q[2].end_time < JoinTTL
\* C6: a lobby whose end_time has passed is deleted by the check of the
\* next host, join, leave or query that reaches it: join, leave and query
\* are dropped, and a host creates a fresh lobby with an empty queue.
C6_ExpiredLobbyIsDeletedOnAccess ==
    [][\A g \in Served, ch \in Channels :
          (/\ Accepts(g, ch)
           /\ g \in DOMAIN lobby_registry
           /\ lobby_registry[g].end_time < 0) =>
              /\ (\/ \E m \in Members : Join(g, ch, m)
                  \/ \E m \in Members : Leave(g, ch, m)
                  \/ Query(g, ch)) =>
                     /\ g \notin DOMAIN lobby_registry'
                     /\ result'.status = "lobby_exists"
                     /\ result'.reply = ""
              /\ \A roles \in SUBSET Roles :
                     (MayHost(g, roles) /\ Host(g, ch, roles)) =>
                         /\ g \in DOMAIN lobby_registry'
                         /\ lobby_registry'[g].queue = <<>>
                         /\ lobby_registry'[g].end_time = LobbyTTL
                         /\ result'.reply = "Lobby created!"]_vars

\* C6 witness: a host found the guild's lobby expired, deleted it and
\* created a fresh one.
C6_Witness ==
    /\ result.reply = "Lobby created!"
    /\ result.expired
    /\ Active(dev_guild_id)
    /\ lobby_registry[dev_guild_id].queue = <<>>

C8_QueueChannelNeedsReadAndSend ==
    [][\A g \in Served, manage_guild \in BOOLEAN, c \in Channels,
          send \in BOOLEAN, read \in BOOLEAN :
          (~(send /\ read)
           /\ ConfigureQueueChannel(g, manage_guild, c, send, read)) =>
              /\ UNCHANGED <<db, config_registry>>
              /\ result'.status = "CommandError"]_vars

\* C9: configure default_queue_size with a value <= 0 sends the error
\* reply, no confirmation, and leaves the table and the cache as they were.
C9_NonPositiveSizeRejected ==
    [][\A g \in Served, manage_guild \in BOOLEAN, n \in SizeArgs :
          (n <= 0 /\ ConfigureDefaultQueueSize(g, manage_guild, Some(n))) =>
              /\ UNCHANGED <<db, config_registry>>
              /\ result'.reply = "Default queue size must be greater than 0."
              /\ result'.status = "CommandError"]_vars

\* C9 witness: a configure default_queue_size was turned down.
C9_Witness ==
    /\ result.status = "CommandError"
    /\ result.reply = "Default queue size must be greater than 0."
    /\ dev_guild_id \in DOMAIN db

\* C10: a lobby created by host has the queue size the guild's persisted
\* default_queue_size gives at that moment, or 8 when none is set.
C10_LobbySizeFollowsSetting ==
    [][\A g \in Served, ch \in Channels, roles \in SUBSET Roles :
          (result'.reply = "Lobby created!" /\ Host(g, ch, roles)) =>
              lobby_registry'[g].queue_size =
                  IF g \in DOMAIN db /\ db[g].default_queue_size # None
                  THEN db[g].default_queue_size[1]
                  ELSE DefaultQueueSize]_vars

\* C11: the queue_size of a lobby is the same from its creation to its
\* destruction: a step that keeps the guild's lobby (creates none in its
\* place) keeps its queue_size, whatever the command, a configure
\* default_queue_size included.
C11_QueueSizeFixed ==
    [][\A g \in DOMAIN lobby_registry :
          (g \in DOMAIN lobby_registry' /\ result'.reply # "Lobby created!")
              => lobby_registry'[g].queue_size = lobby_registry[g].queue_size]_vars

\* C11 witness: configure default_queue_size was confirmed while the guild's
\* lobby is active, and the persisted default differs from the lobby's
\* queue_size.
C11_Witness ==
    /\ result.reply = "Settings updated."
    /\ Active(dev_guild_id)
    /\ db[dev_guild_id].default_queue_size # None
    /\ db[dev_guild_id].default_queue_size
           # Some(lobby_registry[dev_guild_id].queue_size)

\* C12: a host creates a lobby only if the author holds the host role the
\* guild has configured (persisted), or none is configured; and when none
\* is configured, a host in the queue channel of a guild without a lobby
\* creates one whatever the author's roles.
C12_HostRoleIsTheConfiguredOne ==
    [][\A g \in Served, ch \in Channels, roles \in SUBSET Roles :
          Host(g, ch, roles) =>
              /\ result'.reply = "Lobby created!" =>
                     \/ g \notin DOMAIN db
                     \/ db[g].host_role_id = None
                     \/ \E r \in roles : db[g].host_role_id = Some(r)
              /\ (/\ Accepts(g, ch)
                  /\ g \in DOMAIN db /\ db[g].host_role_id = None
                  /\ g \notin DOMAIN lobby_registry) =>
                     result'.reply = "Lobby created!"]_vars

\* C13: a host, join, leave or query whose channel_check fails, or a host
\* whose host_check fails, runs no handler: the lobbies, their queues and
\* expiries and the suspended handlers are as they were, and nothing is sent.
C13_FailedCheckRunsNoHandler ==
    [][\A g \in Served, ch \in Channels :
          g \in DOMAIN config_registry =>
              /\ (/\ config_registry[g].queue_channel # Some(ch)
                  /\ \/ \E roles \in SUBSET Roles : Host(g, ch, roles)
                     \/ \E m \in Members : Join(g, ch, m)
                     \/ \E m \in Members : Leave(g, ch, m)
                     \/ Query(g, ch)) =>
                     /\ UNCHANGED <<lobby_registry, tasks>>
                     /\ result'.reply = ""
              /\ \A roles \in SUBSET Roles :
                     (~MayHost(g, roles) /\ Host(g, ch, roles)) =>
                         /\ UNCHANGED <<lobby_registry, tasks>>
                         /\ result'.reply = ""]_vars

\* C13 witness: a host by an author without the host role was dropped by
\* host_check while the guild has an active lobby.
C13_Witness ==
    /\ result.status = "host_check"
    /\ Active(dev_guild_id)
    /\ lobby_registry[dev_guild_id].end_time < LobbyTTL

\* C14: in a guild without a configured queue channel (no record, or a
\* record whose queue_channel is unset, persisted or cached) no host, join,
\* leave or query is accepted in any channel: no lobby is created, no queue
\* is modified and nothing is sent.
C14_NoQueueChannelAcceptsNothing ==
    [][\A g \in Served, ch \in Channels :
          (/\ \/ g \notin DOMAIN db
              \/ db[g].queue_channel = None
              \/ g \notin DOMAIN config_registry
              \/ config_registry[g].queue_channel = None
           /\ \/ \E roles \in SUBSET Roles : Host(g, ch, roles)
              \/ \E m \in Members : Join(g, ch, m)
              \/ \E m \in Members : Leave(g, ch, m)
              \/ Query(g, ch)) =>
              /\ UNCHANGED <<lobby_registry, tasks>>
              /\ lobby_registry = EmptyDict
              /\ result'.reply = ""
              /\ result'.status \in {"KeyError", "channel_check"}]_vars

\* C14 witness: a command was dropped by channel_check in a guild whose
\* record has no queue channel.
C14_Witness ==
    /\ result.status = "channel_check"
    /\ dev_guild_id \in DOMAIN db
    /\ db[dev_guild_id].queue_channel = None

\* C15: a confirmed configure command sets the persisted field it names to
\* the value given and leaves the two other persisted fields of the guild
\* as they were.
C15_ConfigureChangesOnlyItsField ==
    [][\A g \in Served, manage_guild \in BOOLEAN :
          (g \in DOMAIN db /\ result'.reply = "Settings updated.") =>
              /\ \A n \in Opt(SizeArgs) :
                     ConfigureDefaultQueueSize(g, manage_guild, n) =>
                         /\ db'[g].default_queue_size = n
                         /\ db'[g].queue_channel = db[g].queue_channel
                         /\ db'[g].host_role_id = db[g].host_role_id
              /\ \A c \in Channels, send \in BOOLEAN, read \in BOOLEAN :
                     ConfigureQueueChannel(g, manage_guild, c, send, read) =>
                         /\ db'[g].queue_channel = Some(c)
                         /\ db'[g].default_queue_size = db[g].default_queue_size
                         /\ db'[g].host_role_id = db[g].host_role_id
              /\ \A r \in Opt(Roles) :
                     ConfigureHostRole(g, manage_guild, r) =>
                         /\ db'[g].host_role_id = r
                         /\ db'[g].default_queue_size = db[g].default_queue_size
                         /\ db'[g].queue_channel = db[g].queue_channel]_vars

\* C16: for a guild that had no record at startup every valid configure
\* command (a positive size, a channel the bot can read and send on, any
\* host role) leaves a record for the guild and is confirmed with
\* "Settings updated."; none fails because the record exists already.
C16_ConfigureNeverInsertsTwice ==
    [][\A g \in Served, manage_guild \in BOOLEAN :
          (/\ g \notin DOMAIN config_registry
           /\ \/ \E n \in SizeArgs :
                     n > 0 /\ ConfigureDefaultQueueSize(g, manage_guild, Some(n))
              \/ \E c \in Channels :
                     ConfigureQueueChannel(g, manage_guild, c, TRUE, TRUE)
              \/ \E r \in Opt(Roles) : ConfigureHostRole(g, manage_guild, r))
          => /\ g \in DOMAIN db'
             /\ result'.reply = "Settings updated."
             /\ result'.status # "IntegrityError"]_vars

\* C17 (as stated): an accepted leave removes its member's entry if there is
\* one and leaves every other entry, its expiry and the order of the entries
\* as they were, as well as queue_size and end_time; the lobby stays
\* registered.
C17_LeaveRemovesOnlyItsMember ==
    [][\A g \in Served, ch \in Channels, m \in Members :
          (Accepts(g, ch) /\ Active(g) /\ Leave(g, ch, m)) =>
              /\ g \in DOMAIN lobby_registry'
              /\ lobby_registry'[g].queue =
                     SelectSeq(lobby_registry[g].queue,
                               LAMBDA qj : qj.member_id # m)
              /\ lobby_registry'[g].queue_size = lobby_registry[g].queue_size
              /\ lobby_registry'[g].end_time = lobby_registry[g].end_time
              /\ result'.reply = "You are no longer part of the queue!"]_vars

\* C17 (amended): an accepted leave removes its member's entry if there is
\* one and leaves every other unexpired entry, its expiry and the order of
\* those entries as they were (the expired ones are dropped), as well as
\* queue_size and end_time; the lobby stays registered.
C17_LeaveKeepsUnexpiredOthers ==
    [][\A g \in Served, ch \in Channels, m \in Members :
          (Accepts(g, ch) /\ Active(g) /\ Leave(g, ch, m)) =>
              /\ g \in DOMAIN lobby_registry'
              /\ lobby_registry'[g].queue =
                     SelectSeq(lobby_registry[g].queue,
                               LAMBDA qj : Unexpired(qj) /\ qj.member_id # m)
              /\ lobby_registry'[g].queue_size = lobby_registry[g].queue_size
              /\ lobby_registry'[g].end_time = lobby_registry[g].end_time
              /\ result'.reply = "You are no longer part of the queue!"]_vars

\* C17 witness: a leave was answered, the clean-up before it dropped an
\* expired entry, and the lobby is still registered with another member's
\* unexpired entry in its queue.
C17_Witness ==
    /\ result.reply = "You are no longer part of the queue!"
    /\ result.dropped > 0
    /\ Active(dev_guild_id)
    /\ lobby_registry[dev_guild_id].queue # <<>>

\* C18: a guild's lobby appears only by a successful host, and goes away
\* (is removed, or replaced by a new one) only when its end_time has passed
\* and a check's clean-up detects it, or by the pop of the join that
\* found this lobby's queue at queue_size.
C18_LobbyLifecycle ==
    [][\A g \in Guilds :
          /\ (g \notin DOMAIN lobby_registry /\ g \in DOMAIN lobby_registry')
                 => result'.reply = "Lobby created!"
          /\ (/\ g \in DOMAIN lobby_registry
              /\ \/ g \notin DOMAIN lobby_registry'
                 \/ result'.reply = "Lobby created!") =>
                 \/ lobby_registry[g].end_time < 0 /\ result'.expired
                 \/ /\ result'.status = "popped"
                    /\ \E m \in Members :
                           /\ tasks[m].pc = "pop" /\ tasks'[m].pc = "idle"
                           /\ tasks[m].guild = g
                           /\ tasks[m].detached = None]_vars

\* C19: whenever no join handler is suspended (so none is between its
\* append and its fullness test), every registered lobby has
\* queue_size >= 1 and fewer than queue_size entries in its queue.
C19_QueueBelowQueueSize ==
    (\A m \in Members : tasks[m].pc = "idle") =>
        \A g \in DOMAIN lobby_registry :
            /\ lobby_registry[g].queue_size >= 1
            /\ Len(lobby_registry[g].queue) >= 0
            /\ Len(lobby_registry[g].queue) < lobby_registry[g].queue_size

\* C20: a lobby that fills is popped exactly once: the announcement lists
\* queue_size distinct members and is sent by one join only, and the pop of
\* that join removes the lobby its member was appended to, which is still
\* the registered one.
C20_FullLobbyPoppedOnce ==
    [][\A m \in Members :
          /\ (/\ JoinFullness(m)
              /\ result'.reply = "Full lobby. Start game!") =>
                 /\ Len(result'.data) = TaskLobby(tasks[m]).queue_size
                 /\ \A i, j \in DOMAIN result'.data :
                        result'.data[i] = result'.data[j] => i = j
                 /\ \A x \in Members \ {m} :
                        ~(/\ tasks[x].pc = "pop"
                          /\ tasks[x].guild = tasks[m].guild
                          /\ tasks[x].detached = tasks[m].detached)
          /\ JoinPop(m) =>
                 /\ tasks[m].guild \in DOMAIN lobby_registry
                 /\ tasks[m].detached = None
                 /\ tasks[m].guild \notin DOMAIN lobby_registry'
                 /\ result'.status = "popped"]_vars
====
